---------------------------- MODULE Spec2Model ----------------------------
(***************************************************************************)
(* galaxypad: recording of controller input from Dolphin's emulated memory *)
(* into a PAD file (src/galaxypad/pad.py, src/galaxypad/__main__.py).      *)
(*                                                                         *)
(* The model follows one session of record_pad_from_dolphin, statement by  *)
(* statement where an exception or an interrupt can fall between two       *)
(* statements.  The emulated game is the environment: it owns the          *)
(* PadRecorderInfo memory (frame counter, recorder mode, pointers) and     *)
(* changes it while the recorder polls.  The output file is a sequence of  *)
(* bytes.                                                                  *)
(***************************************************************************)
EXTENDS Integers, Sequences, FiniteSets, TLC

(***************************************************************************)
(* Bounds of the model.                                                    *)
(***************************************************************************)
MaxGameTicks == 4
MaxModeChanges == 1

(***************************************************************************)
(* Program constants.                                                      *)
(***************************************************************************)
RECORDER_MODE_WAITING == 0
RECORDER_MODE_PREPARING == 1
RECORDER_MODE_RECORDING == 2
RECORDER_MODE_STOPPED == 3
KPAD_STATUS_SIZE == 240
KPAD_MASK_SIZE == 33
EOF_INDEX_OFFSET == 32
EOF_PACKET_SIZE == 192

None == "None"

(***************************************************************************)
(* Byte-level helpers.                                                     *)
(***************************************************************************)
Byte == 0..255

\* bytes(n), bytearray(n): n zero bytes
RECURSIVE Zeros(_)
Zeros(n) ==
    IF n <= 0 THEN << >>
    ELSE IF n = 1 THEN << 0 >>
    ELSE Zeros(n \div 2) \o Zeros(n - (n \div 2))

RECURSIVE BitOr(_, _)
BitOr(a, b) ==
    IF a = 0 THEN b
    ELSE IF b = 0 THEN a
    ELSE (IF a % 2 = 1 \/ b % 2 = 1 THEN 1 ELSE 0) + 2 * BitOr(a \div 2, b \div 2)

RECURSIVE BitAnd(_, _)
BitAnd(a, b) ==
    IF a = 0 \/ b = 0 THEN 0
    ELSE (IF a % 2 = 1 /\ b % 2 = 1 THEN 1 ELSE 0) + 2 * BitAnd(a \div 2, b \div 2)

ShiftLeft(a, n) == a * (2 ^ n)

(***************************************************************************)
(* Integers that need more than 31 bits (the update frame counter, the     *)
(* save data hash, packet header words, addresses) are kept as two halves: *)
(* [hi, lo] stands for hi * 65536 + lo with lo in 0..65535.  hi is any     *)
(* integer, so Python's -1 and 2^32 have their own representations.        *)
(***************************************************************************)
Long(hi, lo) == [hi |-> hi, lo |-> lo]

ToLong(x) == Long(x \div 65536, x % 65536)

\* x + n for a small n >= 0
AddLong(x, n) == Long(x.hi + ((x.lo + n) \div 65536), (x.lo + n) % 65536)

\* x & 0xFFFFFFFF
Mask32(x) == Long(((x.hi % 65536) + 65536) % 65536, x.lo)

\* a | b for a, b in 0..2^32-1
OrLong(a, b) == Long(BitOr(a.hi, b.hi), BitOr(a.lo, b.lo))

\* x << n for x in 0..65535 and n in 0..24
ShiftLeftLong(x, n) ==
    IF n >= 16
    THEN Long(ShiftLeft(x, n - 16), 0)
    ELSE ToLong(ShiftLeft(x, n))

\* struct.pack(">I", x) for x in 0..2^32-1
PackLong(x) == << x.hi \div 256, x.hi % 256, x.lo \div 256, x.lo % 256 >>

\* struct.unpack_from(">I", data, offset)[0] as a Long
UnpackLong(data, offset) ==
    Long(data[offset + 1] * 256 + data[offset + 2], data[offset + 3] * 256 + data[offset + 4])

MINUS_ONE == Long(-1, 65535)

NULL == Long(0, 0)

ADDR_PAD_RECORDER_INFO_PTR == Long(32768, 16380)

\* struct.pack(">I", x) for x below 2^31
PackU32(x) == << (x \div 16777216) % 256, (x \div 65536) % 256, (x \div 256) % 256, x % 256 >>

\* struct.unpack_from(">I", data, offset)[0] for a value below 2^31,
\* offset counted from 0
UnpackU32(data, offset) ==
    data[offset + 1] * 16777216 + data[offset + 2] * 65536 + data[offset + 3] * 256 + data[offset + 4]

Slice(s, from, to) == IF to < from THEN << >> ELSE SubSeq(s, from, to)

(***************************************************************************)
(* PAD writer helpers.  Each returns the stream after the write.           *)
(***************************************************************************)
write_pad_header(stream) == stream \o PackU32(64) \o Zeros(60)

write_game_data(stream, game_data) == stream \o PackU32(Len(game_data)) \o game_data

\* The header word with the state count shifted to bit 16.
PacketHeaderWord_Shift16(packet_index, packet_size, packet_states) ==
    OrLong(OrLong(ToLong(BitAnd(packet_index, 255)),
                  ShiftLeftLong(BitAnd(packet_size, 65535), 8)),
           ShiftLeftLong(BitAnd(packet_states, 255), 16))

PacketHeaderWord(packet_index, packet_size, packet_states) ==
    OrLong(OrLong(ToLong(BitAnd(packet_index, 255)),
                  ShiftLeftLong(BitAnd(packet_size, 65535), 8)),
           ShiftLeftLong(BitAnd(packet_states, 255), 24))

\* The header word packed with the low byte first.
write_packet_header_LittleEndian(stream, packet_index, packet_size, packet_states) ==
    LET word == PackLong(PacketHeaderWord(packet_index, packet_size, packet_states))
    IN  stream \o << word[4], word[3], word[2], word[1] >>

write_packet_header(stream, packet_index, packet_size, packet_states) ==
    stream \o PackLong(PacketHeaderWord(packet_index, packet_size, packet_states))

\* Padding that does not test for an aligned position.
PaddingSize_Always(tell) == 32 - (tell % 32)

\* ((tell + 31) & ~31) - tell
PaddingSize(tell) == ((tell + 31) - ((tell + 31) % 32)) - tell

align_stream_32(stream) == stream \o Zeros(PaddingSize(Len(stream)))

(***************************************************************************)
(* compress_kpad_states.  CompressByte is the body of the inner loop for   *)
(* byte i of one KPADStatus (i counts from 0 as in the code) and acts on   *)
(* the mask bytes, the changed bytes and the previous state.               *)
(* CompressBytes runs the body for i = first..last in ascending order; it  *)
(* splits the range in halves to keep the evaluation shallow.              *)
(***************************************************************************)
\* The loop body with the mask bits numbered from the top of each byte.
CompressByte_MsbFirst(state, i, acc) ==
    IF state[i + 1] /= acc.previous[i + 1]
    THEN [previous |-> [acc.previous EXCEPT ![i + 1] = state[i + 1]],
          chunks |-> Append(acc.chunks, state[i + 1]),
          blocks |-> [acc.blocks EXCEPT ![(i \div 8) + 1] =
                          BitOr(@, ShiftLeft(1, 7 - (i % 8)))]]
    ELSE acc

CompressByte(state, i, acc) ==
    IF state[i + 1] /= acc.previous[i + 1]
    THEN [previous |-> [acc.previous EXCEPT ![i + 1] = state[i + 1]],
          chunks |-> Append(acc.chunks, state[i + 1]),
          blocks |-> [acc.blocks EXCEPT ![(i \div 8) + 1] = BitOr(@, ShiftLeft(1, i % 8))]]
    ELSE acc

RECURSIVE CompressBytes(_, _, _, _)
CompressBytes(state, first, last, acc) ==
    IF first > last THEN acc
    ELSE IF first = last THEN CompressByte(state, first, acc)
    ELSE LET middle == (first + last) \div 2
             left == CompressBytes(state, first, middle, acc)
         IN  IF Len(left.chunks) >= 0
             THEN CompressBytes(state, middle + 1, last, left)
             ELSE left

CompressState(state, previous) ==
    CompressBytes(state, 0, Len(state) - 1,
                  [previous |-> previous, chunks |-> << >>, blocks |-> Zeros(KPAD_MASK_SIZE)])

\* The outer loop comparing every status with the previous state as it was
\* when the call began.
RECURSIVE CompressFrom_StaleBaseline(_, _, _, _)
CompressFrom_StaleBaseline(kpad_states, k, previous, out) ==
    IF k > Len(kpad_states)
    THEN [out |-> out, previous |-> previous]
    ELSE LET r == CompressState(kpad_states[k], previous)
         IN  CompressFrom_StaleBaseline(kpad_states, k + 1, previous,
                                        out \o r.blocks \o r.chunks)

RECURSIVE CompressFrom(_, _, _, _)
CompressFrom(kpad_states, k, previous, out) ==
    IF k > Len(kpad_states)
    THEN [out |-> out, previous |-> previous]
    ELSE LET r == CompressState(kpad_states[k], previous)
         IN  CompressFrom(kpad_states, k + 1, r.previous,
                          out \o r.blocks \o r.chunks)

compress_kpad_states(kpad_states, previous_kpad_state) ==
    CompressFrom(kpad_states, 1, previous_kpad_state, << >>)


(***************************************************************************)
(* GameData.bin helpers.                                                   *)
(***************************************************************************)
\* Python's  x & 0xFFFF  on an integer of either sign
Low16(x) == ((x % 65536) + 65536) % 65536

RECURSIVE ChecksumLoop(_, _, _, _, _)
ChecksumLoop(data, offset, count, hi, lo) ==
    IF count <= 0
    THEN OrLong(ShiftLeftLong(Low16(hi), 16), ToLong(Low16(lo)))
    ELSE LET word == BitOr(ShiftLeft(data[offset + 1], 8), data[offset + 2])
         IN  ChecksumLoop(data, offset + 2, count - 1, hi + word, lo + (0 - word - 1))

\* The hash taken from the start of the buffer whatever the offset is.
calc_memory_checksum_FromStart(data, offset, length) ==
    ChecksumLoop(data, 0, length \div 2, 0, 0)

calc_memory_checksum(data, offset, length) ==
    ChecksumLoop(data, offset, length \div 2, 0, 0)

\* struct.unpack_from(">4I", data, offset): saved hash, users, blocks, size
extract_save_file_header(data, offset) ==
    << UnpackLong(data, offset), UnpackU32(data, offset + 4),
       UnpackU32(data, offset + 8), UnpackU32(data, offset + 12) >>

RECURSIVE StripLeft(_)
StripLeft(s) == IF Len(s) > 0 /\ s[1] = 0 THEN StripLeft(Tail(s)) ELSE s

RECURSIVE StripRight(_)
StripRight(s) ==
    IF Len(s) > 0 /\ s[Len(s)] = 0 THEN StripRight(SubSeq(s, 1, Len(s) - 1)) ELSE s

\* str.strip("\0")
StripNul(s) == StripRight(StripLeft(s))

\* The name:offset table as a sequence of pairs in directory order; a lookup
\* takes the last pair of a name, as a dict keeps the last assignment.
RECURSIVE extract_save_block_offsets(_, _, _)
extract_save_block_offsets(data, offset, blocks_count) ==
    IF blocks_count <= 0
    THEN << >>
    ELSE << [name |-> StripNul(SubSeq(data, offset + 1, offset + 12)),
             offset |-> UnpackU32(data, offset + 12)] >>
         \o extract_save_block_offsets(data, offset + 16, blocks_count - 1)

HasBlock(save_blocks, name) == \E k \in 1..Len(save_blocks) : save_blocks[k].name = name

BlockOffset(save_blocks, name) ==
    LET ks == {k \in 1..Len(save_blocks) : save_blocks[k].name = name}
        last == CHOOSE k \in ks : \A j \in ks : j <= k
    IN  save_blocks[last].offset

RECURSIVE DecimalDigits(_)
DecimalDigits(n) ==
    IF n < 10 THEN << 48 + n >> ELSE Append(DecimalDigits(n \div 10), 48 + (n % 10))

\* f"user{index}" in ASCII
GameDataName(index) == << 117, 115, 101, 114 >> \o DecimalDigits(index)

\* BytesIO.read(size) at position pos (counted from 0): up to size bytes,
\* everything that is left when size is negative
StreamRead(data, pos, size) ==
    IF pos >= Len(data) THEN << >>
    ELSE IF size < 0 THEN SubSeq(data, pos + 1, Len(data))
    ELSE Slice(data, pos + 1, IF pos + size > Len(data) THEN Len(data) ELSE pos + size)

\* The declared length taken as the length of the payload alone.
SectionDataLength_Undiminished(section_header) == UnpackU32(section_header, 8)

\* struct.unpack_from(">I", section_header, 0x8)[0] - 12
SectionDataLength(section_header) == UnpackU32(section_header, 8) - 12

\* The section loop of extract_game_data_from_save_file.  A section header
\* shorter than 12 bytes makes struct.unpack_from raise.
RECURSIVE CopySections(_, _, _, _)
CopySections(data, pos, sections_left, dest) ==
    IF sections_left <= 0
    THEN [kind |-> "ok", error |-> "", data |-> dest]
    ELSE LET section_header == StreamRead(data, pos, 12)
         IN  IF Len(section_header) < 12
             THEN [kind |-> "raise", error |-> "", data |-> << >>]
             ELSE LET section_data_length == SectionDataLength(section_header)
                      section_data == StreamRead(data, pos + 12, section_data_length)
                  IN  CopySections(data, pos + 12 + Len(section_data),
                                   sections_left - 1,
                                   dest \o section_header \o section_data)

\* Step 3 of extract_game_data_from_save_file: seek to the block, copy the
\* mini-header and the declared sections.
ExtractGameData(data, block_offset) ==
    LET game_data_header == StreamRead(data, block_offset, 4)
    IN  IF Len(game_data_header) < 2
        THEN [kind |-> "raise", error |-> "", data |-> << >>]
        ELSE CopySections(data, block_offset + Len(game_data_header),
                          game_data_header[2], game_data_header)

\* saved_hash != calculated_hash, negated; this variant never sees a mismatch
HashMatches_Unchecked(saved_hash, calculated_hash) == TRUE

HashMatches(saved_hash, calculated_hash) == saved_hash = calculated_hash

\* extract_game_data_from_save_file.  save is [exists, is_file, data]; the
\* result is "none" (None returned; error names the message printed),
\* "raise" (an exception leaves the function) or "ok" with the extracted
\* game data.
extract_game_data_from_save_file(save, index) ==
    IF ~save.exists
    THEN [kind |-> "none", error |-> "doesn't exist", data |-> << >>]
    ELSE IF ~save.is_file
    THEN [kind |-> "none", error |-> "not a file", data |-> << >>]
    ELSE IF Len(save.data) < 16
    THEN [kind |-> "raise", error |-> "too small", data |-> << >>]
    ELSE LET data == save.data
             calculated_hash == calc_memory_checksum(data, 4, Len(data) - 4)
             header == extract_save_file_header(data, 0)
         IN  IF ~HashMatches(header[1], calculated_hash)
             THEN [kind |-> "none", error |-> "corrupted", data |-> << >>]
             ELSE IF index < 1 \/ index > header[2]
             THEN [kind |-> "none", error |-> "no player", data |-> << >>]
             ELSE IF Len(data) < 16 + 16 * header[3]
             THEN [kind |-> "raise", error |-> "", data |-> << >>]
             ELSE LET save_blocks == extract_save_block_offsets(data, 16, header[3])
                  IN  IF ~HasBlock(save_blocks, GameDataName(index))
                      THEN [kind |-> "none", error |-> "no block", data |-> << >>]
                      ELSE ExtractGameData(data, BlockOffset(save_blocks, GameDataName(index)))

(***************************************************************************)
(* Inputs of the model: save files, player indices, game IDs, KPADStatus   *)
(* blocks and the values the game can leave in the recorder mode word.     *)
(***************************************************************************)
Section(tag, declared_length, payload) ==
    << tag, tag, tag, tag, tag, tag, tag, tag >> \o PackU32(declared_length) \o payload

\* two sections (12 and 14 bytes): 30 bytes in all
GameData1 == << 0, 2, 0, 0 >> \o Section(17, 12, << >>) \o Section(18, 14, << 171, 205 >>)

\* one section of 20 bytes: 24 bytes in all
GameData2 == << 0, 1, 0, 0 >> \o Section(19, 20, << 1, 2, 3, 4, 5, 6, 7, 8 >>)

BlockName(index) == GameDataName(index) \o Zeros(12 - Len(GameDataName(index)))

\* both game data blocks are followed by two bytes that no section declares
SaveBlocksArea == GameData1 \o << 222, 173 >> \o GameData2 \o << 190, 239 >>

SaveTail(directory) ==
    PackU32(2) \o PackU32(Len(directory) \div 16)
    \o PackU32(16 + Len(directory) + Len(SaveBlocksArea))
    \o directory \o SaveBlocksArea

WithHash(tail, delta) ==
    PackLong(Mask32(AddLong(calc_memory_checksum(PackU32(0) \o tail, 4, Len(tail)), delta)))
    \o tail

Directory2 == BlockName(1) \o PackU32(48) \o BlockName(2) \o PackU32(48 + Len(GameData1) + 2)

Directory1 == BlockName(1) \o PackU32(32)

SaveFiles ==
    { [exists |-> FALSE, is_file |-> FALSE, data |-> << >>],
      [exists |-> TRUE, is_file |-> FALSE, data |-> << >>],
      [exists |-> TRUE, is_file |-> TRUE, data |-> << 0, 0, 0, 0 >>],
      [exists |-> TRUE, is_file |-> TRUE, data |-> << 0, 0, 0, 1, 0, 0 >>],
      [exists |-> TRUE, is_file |-> TRUE, data |-> WithHash(SaveTail(Directory2), 0)],
      [exists |-> TRUE, is_file |-> TRUE, data |-> WithHash(SaveTail(Directory2), 1)],
      [exists |-> TRUE, is_file |-> TRUE, data |-> WithHash(SaveTail(Directory1), 65536)],
      [exists |-> TRUE, is_file |-> TRUE, data |-> WithHash(SaveTail(Directory1), 0)] }

PlayerIndices == 0..3

UNINITIALIZED_GAME_ID == "\\0\\0\\0\\0"

VALID_GAME_IDS == {"SB4P", "SB4E", "SB4J", "SB4K", "SB4W"}

GameIds == {UNINITIALIZED_GAME_ID, "SB4E", "RMGE"}

ModeValues == {RECORDER_MODE_WAITING, RECORDER_MODE_PREPARING, RECORDER_MODE_RECORDING,
               RECORDER_MODE_STOPPED, RECORDER_MODE_STOPPED + 1}

INFO_PTR == AddLong(ADDR_PAD_RECORDER_INFO_PTR, 4)

Pointers == {NULL, INFO_PTR}

ZeroStatus == Zeros(KPAD_STATUS_SIZE)

Status1 == [ZeroStatus EXCEPT ![1] = 1, ![10] = 129, ![KPAD_STATUS_SIZE] = 255]

Status2 == [ZeroStatus EXCEPT ![1] = 2, ![16] = 64, ![KPAD_STATUS_SIZE] = 255]

\* What one read of the status array returns: no status, one status, or two
\* statuses of which the second differs from the first.
StatusDumps == { << >>, << Status1 >>, << ZeroStatus, Status1 >> }

FirstFrames == {Long(0, 5), Long(65535, 65534)}

StageNames == {"RedBlueExGalaxy"}

RestartIds == {1}

(***************************************************************************)
(* State.                                                                  *)
(*   pc, outcome       position in record_pad_from_dolphin and how the     *)
(*                     call ended ("running" while it has not)             *)
(*   hooked            dolphin_memory_engine.is_hooked()                   *)
(*   mem_frame, mem_mode   the update frame counter and the recorder mode  *)
(*                     in the game's memory; the other words of the game's *)
(*                     memory (pointers, statuses, strings) are drawn      *)
(*                     afresh at every read                                *)
(*   game_ticks, mode_changes   how often the game has changed them        *)
(*   file_state, stream         the output file and its content            *)
(*   the other lower-case names are the locals of record_pad_from_dolphin  *)
(* History variables, read by the properties only:                         *)
(*   accepted          the frame counters the loop accepted, in order      *)
(*   desync            a read was neither the last accepted value nor its  *)
(*                     successor                                           *)
(*   packet_log        arguments of every write_packet_header call         *)
(*   ever_hooked       hook() has succeeded                                *)
(* State of the reader of a PAD stream, used to check the codec:           *)
(*   decoder_state     the reader's previous KPADStatus                    *)
(*   decoded_dumps     the statuses it rebuilt from the last payload       *)
(* A helper called on its own, outside a session:                          *)
(*   call              the helper and its arguments                        *)
(*   result            what it returned                                    *)
(***************************************************************************)
VARIABLES pc, outcome, hooked,
          mem_frame, mem_mode,
          game_ticks, mode_changes,
          game_data, pad_recorder_info_ptr, recorder_state, stage_name, restart_id,
          next_frame, total_frames, current_packet_index, previous_state,
          status_dumps, compressed_packet,
          file_state, stream,
          accepted, desync, packet_log, ever_hooked,
          decoder_state, decoded_dumps,
          call, result

gameVars == << mem_frame, mem_mode, game_ticks, mode_changes >>

localVars == << game_data, pad_recorder_info_ptr, recorder_state, stage_name, restart_id,
                next_frame, total_frames, current_packet_index, previous_state,
                status_dumps, compressed_packet >>

fileVars == << file_state, stream >>

historyVars == << accepted, desync, packet_log, ever_hooked >>

codecVars == << decoder_state, decoded_dumps >>

callVars == << call, result >>

sessionVars == << pc, outcome, hooked, gameVars, localVars, fileVars, historyVars, codecVars >>

vars == << sessionVars, callVars >>

Init ==
    /\ pc = "load_save"
    /\ outcome = "running"
    /\ hooked = FALSE
    /\ mem_frame \in FirstFrames
    /\ mem_mode \in {RECORDER_MODE_WAITING, RECORDER_MODE_RECORDING}
    /\ game_ticks = 0
    /\ mode_changes = 0
    /\ game_data = None
    /\ pad_recorder_info_ptr = NULL
    /\ recorder_state = RECORDER_MODE_WAITING
    /\ stage_name = None
    /\ restart_id = None
    /\ next_frame = MINUS_ONE
    /\ total_frames = 0
    /\ current_packet_index = 0
    /\ previous_state = << >>
    /\ status_dumps = << >>
    /\ compressed_packet = << >>
    /\ file_state = "none"
    /\ stream = << >>
    /\ accepted = << >>
    /\ desync = FALSE
    /\ packet_log = << >>
    /\ ever_hooked = FALSE
    /\ decoder_state = << >>
    /\ decoded_dumps = << >>
    /\ call = [op |-> "none"]
    /\ result = [kind |-> "none"]

(***************************************************************************)
(* How a call of record_pad_from_dolphin ends.                             *)
(***************************************************************************)
\* An exception leaves the function: the with statement closes the file if
\* it is open, nothing else is cleaned up (handle_dolphin only prints).
Raise(kind) ==
    /\ pc' = "done"
    /\ outcome' = kind
    /\ file_state' = IF file_state = "open" THEN "closed" ELSE file_state
    /\ UNCHANGED << hooked, stream >>

\* validate_ptr: the wrapped accessor runs only for a non-null first argument
validate_ptr(ptr) == ptr /= NULL

\* The statements that read the game's memory through the provider.
ReadingPcs == {"game_id", "find_info", "await_start", "stage_name", "restart_id",
               "read_frame", "read_mode", "read_statuses"}

\* The statements of the recording loop.
LoopPcs == {"read_frame", "read_mode", "read_statuses", "compress",
            "write_data_header", "write_data", "write_filler"}

\* while recorder_state == RECORDER_MODE_RECORDING
LoopHead(state) == IF state = RECORDER_MODE_RECORDING THEN "read_frame" ELSE "write_eof"

(***************************************************************************)
(* record_pad_from_dolphin, steps 1 to 4: load the save file, hook, wait   *)
(* for the game ID, PadRecorderInfo and the start of the recording.        *)
(***************************************************************************)
LoadSave ==
    /\ UNCHANGED codecVars
    /\ pc = "load_save"
    /\ \E save \in SaveFiles, save_data_index \in PlayerIndices :
          LET r == extract_game_data_from_save_file(save, save_data_index)
          IN  /\ call' = [op |-> "extract", save |-> save, index |-> save_data_index]
              /\ result' = r
              /\ \/ /\ r.kind = "ok"
                    /\ game_data' = r.data
                    /\ pc' = "hook"
                    /\ UNCHANGED << outcome, file_state >>
                 \/ /\ r.kind = "none"
                    /\ pc' = "done"
                    /\ outcome' = "no_game_data"
                    /\ UNCHANGED << game_data, file_state >>
                 \/ /\ r.kind = "raise"
                    /\ Raise("struct.error")
                    /\ UNCHANGED game_data
    /\ UNCHANGED << hooked, stream, gameVars, historyVars,
                    pad_recorder_info_ptr, recorder_state, stage_name, restart_id,
                    next_frame, total_frames, current_packet_index, previous_state,
                    status_dumps, compressed_packet >>

\* while not is_hooked(): hook()  -- hook() succeeds once Dolphin runs a game
Hook ==
    /\ UNCHANGED << codecVars, callVars >>
    /\ pc = "hook"
    /\ \E success \in BOOLEAN :
          /\ hooked' = success
          /\ ever_hooked' = success
          /\ pc' = IF success THEN "game_id" ELSE "hook"
    /\ UNCHANGED << outcome, gameVars, localVars, fileVars, accepted, desync, packet_log >>

\* while game_id == UNINITIALIZED_GAME_ID: game_id = dolphin_get_game_id()
\* An ID outside VALID_GAME_IDS only prints a warning.
ReadGameId ==
    /\ UNCHANGED << codecVars, callVars >>
    /\ pc = "game_id"
    /\ \E game_id \in GameIds :
          pc' = IF game_id = UNINITIALIZED_GAME_ID THEN "game_id" ELSE "find_info"
    /\ UNCHANGED << outcome, hooked, gameVars, localVars, fileVars, historyVars >>

\* while pad_recorder_info_ptr == 0: ... = dolphin_read_u32(addr_pad_recorder_info_ptr)
FindInfo ==
    /\ UNCHANGED << codecVars, callVars >>
    /\ pc = "find_info"
    /\ IF validate_ptr(ADDR_PAD_RECORDER_INFO_PTR)
       THEN /\ \E word \in Pointers :
                  /\ pad_recorder_info_ptr' = word
                  /\ pc' = IF word = NULL THEN "find_info" ELSE "await_start"
            /\ UNCHANGED << outcome, hooked, fileVars >>
       ELSE /\ Raise("IndexError")
            /\ UNCHANGED pad_recorder_info_ptr
    /\ UNCHANGED << gameVars, historyVars, game_data, recorder_state, stage_name,
                    restart_id, next_frame, total_frames, current_packet_index,
                    previous_state, status_dumps, compressed_packet >>

\* The waiting loop without the test for Stopped.
AfterAwait_NoStopTest(state) ==
    IF state \in {RECORDER_MODE_WAITING, RECORDER_MODE_PREPARING} THEN "await_start"
    ELSE "stage_name"

\* Where the session goes with the mode read in the waiting loop: on
\* Waiting or Preparing it polls again, on Stopped it unhooks and returns,
\* on any other value it goes on to step 5.
AfterAwait(state) ==
    IF state \in {RECORDER_MODE_WAITING, RECORDER_MODE_PREPARING} THEN "await_start"
    ELSE IF state = RECORDER_MODE_STOPPED THEN "abort"
    ELSE "stage_name"

\* while recorder_state in [WAITING, PREPARING]: ... = dolphin_read_recorder_mode(...)
\* if recorder_state == RECORDER_MODE_STOPPED: un_hook(); return
AwaitStart ==
    /\ UNCHANGED << codecVars, callVars >>
    /\ pc = "await_start"
    /\ IF validate_ptr(pad_recorder_info_ptr)
       THEN /\ recorder_state' = mem_mode
            /\ IF AfterAwait(mem_mode) = "abort"
               THEN /\ hooked' = FALSE
                    /\ pc' = "done"
                    /\ outcome' = "aborted"
               ELSE /\ pc' = AfterAwait(mem_mode)
                    /\ UNCHANGED << hooked, outcome >>
            /\ UNCHANGED fileVars
       ELSE /\ Raise("IndexError")
            /\ UNCHANGED recorder_state
    /\ UNCHANGED << gameVars, historyVars, game_data, pad_recorder_info_ptr, stage_name,
                    restart_id, next_frame, total_frames, current_packet_index,
                    previous_state, status_dumps, compressed_packet >>

(***************************************************************************)
(* Step 5: general information, output file, PAD header and game data.     *)
(***************************************************************************)
\* dolphin_read_stage_name: the string pointer is read from the info block
\* and dolphin_read_cstring refuses a null pointer.
ReadStageName ==
    /\ UNCHANGED << codecVars, callVars >>
    /\ pc = "stage_name"
    /\ \E stage_name_ptr \in Pointers :
          IF validate_ptr(pad_recorder_info_ptr) /\ validate_ptr(stage_name_ptr)
          THEN /\ \E name \in StageNames : stage_name' = name
               /\ pc' = "restart_id"
               /\ UNCHANGED << outcome, hooked, fileVars >>
          ELSE /\ Raise("IndexError")
               /\ UNCHANGED stage_name
    /\ UNCHANGED << gameVars, historyVars, game_data, pad_recorder_info_ptr, recorder_state,
                    restart_id, next_frame, total_frames, current_packet_index,
                    previous_state, status_dumps, compressed_packet >>

\* restart_id = dolphin_read_restart_id(...); next_frame = -1; total_frames = 0
ReadRestartId ==
    /\ UNCHANGED << codecVars, callVars >>
    /\ pc = "restart_id"
    /\ IF validate_ptr(pad_recorder_info_ptr)
       THEN /\ \E id \in RestartIds : restart_id' = id
            /\ next_frame' = MINUS_ONE
            /\ total_frames' = 0
            /\ pc' = "open"
            /\ UNCHANGED << outcome, hooked, fileVars >>
       ELSE /\ Raise("IndexError")
            /\ UNCHANGED << restart_id, next_frame, total_frames >>
    /\ UNCHANGED << gameVars, historyVars, game_data, pad_recorder_info_ptr, recorder_state,
                    stage_name, current_packet_index, previous_state,
                    status_dumps, compressed_packet >>

\* os.makedirs(...); with open(pad_file_path, "wb") as f:
OpenFile ==
    /\ UNCHANGED << codecVars, callVars >>
    /\ pc = "open"
    /\ file_state' = "open"
    /\ stream' = << >>
    /\ pc' = "write_pad_header"
    /\ UNCHANGED << outcome, hooked, gameVars, localVars, historyVars >>

WritePadHeader ==
    /\ UNCHANGED << codecVars, callVars >>
    /\ pc = "write_pad_header"
    /\ stream' = write_pad_header(stream)
    /\ pc' = "write_game_data"
    /\ UNCHANGED << outcome, hooked, file_state, gameVars, localVars, historyVars >>

\* write_game_data(f, game_data); current_packet_index = 0;
\* previous_state = bytearray(240); then the loop condition is tested
WriteGameData ==
    /\ UNCHANGED << codecVars, callVars >>
    /\ pc = "write_game_data"
    /\ stream' = write_game_data(stream, game_data)
    /\ current_packet_index' = 0
    /\ previous_state' = Zeros(KPAD_STATUS_SIZE)
    /\ pc' = LoopHead(recorder_state)
    /\ UNCHANGED << outcome, hooked, file_state, gameVars, historyVars,
                    game_data, pad_recorder_info_ptr, recorder_state, stage_name, restart_id,
                    next_frame, total_frames, status_dumps, compressed_packet >>

(***************************************************************************)
(* The recording loop.                                                     *)
(***************************************************************************)
\* if next_frame == -1: next_frame = current_frame
ExpectedFrame(expected, current_frame) == IF expected = MINUS_ONE THEN current_frame ELSE expected

\* The successor without the 32-bit mask.
NextFrameAfter_NoMask(current_frame) == AddLong(current_frame, 1)

\* next_frame = (current_frame + 1) & 0xFFFFFFFF
NextFrameAfter(current_frame) == Mask32(AddLong(current_frame, 1))

\* A read that is neither the last accepted frame nor its successor.
OutOfSync(current_frame) ==
    /\ Len(accepted) > 0
    /\ current_frame /= accepted[Len(accepted)]
    /\ current_frame /= Mask32(AddLong(accepted[Len(accepted)], 1))

\* current_frame = dolphin_read_update_frame(...); a frame other than the
\* expected one sends the loop back to its head (continue)
ReadFrame ==
    /\ UNCHANGED << codecVars, callVars >>
    /\ pc = "read_frame"
    /\ IF validate_ptr(pad_recorder_info_ptr)
       THEN LET current_frame == mem_frame
                expected == ExpectedFrame(next_frame, current_frame)
            IN  /\ desync' = (desync \/ OutOfSync(current_frame))
                /\ IF current_frame /= expected
                   THEN /\ next_frame' = expected
                        /\ pc' = LoopHead(recorder_state)
                        /\ UNCHANGED accepted
                   ELSE /\ next_frame' = NextFrameAfter(current_frame)
                        /\ accepted' = Append(accepted, current_frame)
                        /\ pc' = "read_mode"
                /\ UNCHANGED << outcome, hooked, fileVars >>
       ELSE /\ Raise("IndexError")
            /\ UNCHANGED << next_frame, accepted, desync >>
    /\ UNCHANGED << gameVars, packet_log, ever_hooked,
                    game_data, pad_recorder_info_ptr, recorder_state, stage_name, restart_id,
                    total_frames, current_packet_index, previous_state,
                    status_dumps, compressed_packet >>

\* recorder_state = dolphin_read_recorder_mode(...); break unless Recording
ReadMode ==
    /\ UNCHANGED << codecVars, callVars >>
    /\ pc = "read_mode"
    /\ IF validate_ptr(pad_recorder_info_ptr)
       THEN /\ recorder_state' = mem_mode
            /\ pc' = IF mem_mode /= RECORDER_MODE_RECORDING THEN "write_eof" ELSE "read_statuses"
            /\ UNCHANGED << outcome, hooked, fileVars >>
       ELSE /\ Raise("IndexError")
            /\ UNCHANGED recorder_state
    /\ UNCHANGED << gameVars, historyVars, game_data, pad_recorder_info_ptr, stage_name,
                    restart_id, next_frame, total_frames, current_packet_index,
                    previous_state, status_dumps, compressed_packet >>

\* status_dumps = dolphin_read_kpad_statuses(...); total_frames += 1
\* The WPADReadDataInfo pointer is the first argument of dolphin_read_u32,
\* which refuses it when it is null.
ReadStatuses ==
    /\ UNCHANGED << codecVars, callVars >>
    /\ pc = "read_statuses"
    /\ \E wpad_read_data_info_ptr \in Pointers :
          IF validate_ptr(pad_recorder_info_ptr) /\ validate_ptr(wpad_read_data_info_ptr)
          THEN /\ \E dumps \in StatusDumps : status_dumps' = dumps
               /\ total_frames' = total_frames + 1
               /\ pc' = "compress"
               /\ UNCHANGED << outcome, hooked, fileVars >>
          ELSE /\ Raise("IndexError")
               /\ UNCHANGED << status_dumps, total_frames >>
    /\ UNCHANGED << gameVars, historyVars, game_data, pad_recorder_info_ptr, recorder_state,
                    stage_name, restart_id, next_frame, current_packet_index,
                    previous_state, compressed_packet >>

\* compressed_packet = compress_kpad_states(status_dumps, previous_state)
Compress ==
    /\ UNCHANGED << codecVars, callVars >>
    /\ pc = "compress"
    /\ LET r == compress_kpad_states(status_dumps, previous_state)
       IN  /\ compressed_packet' = r.out
           /\ previous_state' = r.previous
    /\ pc' = "write_data_header"
    /\ UNCHANGED << outcome, hooked, gameVars, fileVars, historyVars,
                    game_data, pad_recorder_info_ptr, recorder_state, stage_name, restart_id,
                    next_frame, total_frames, current_packet_index, status_dumps >>

\* write_packet_header(f, current_packet_index, len(compressed_packet), status_count)
WriteDataHeader ==
    /\ UNCHANGED << codecVars, callVars >>
    /\ pc = "write_data_header"
    /\ stream' = write_packet_header(stream, current_packet_index,
                                     Len(compressed_packet), Len(status_dumps))
    /\ packet_log' = Append(packet_log, [index |-> current_packet_index,
                                         size |-> Len(compressed_packet),
                                         states |-> Len(status_dumps)])
    /\ pc' = "write_data"
    /\ UNCHANGED << outcome, hooked, file_state, gameVars, localVars,
                    accepted, desync, ever_hooked >>

\* f.write(compressed_packet); current_packet_index += 1
WriteData ==
    /\ UNCHANGED << codecVars, callVars >>
    /\ pc = "write_data"
    /\ stream' = stream \o compressed_packet
    /\ current_packet_index' = current_packet_index + 1
    /\ pc' = "write_filler"
    /\ UNCHANGED << outcome, hooked, file_state, gameVars, historyVars,
                    game_data, pad_recorder_info_ptr, recorder_state, stage_name, restart_id,
                    next_frame, total_frames, previous_state, status_dumps, compressed_packet >>

\* write_packet_header(f, current_packet_index, 0, 0); current_packet_index += 1
WriteFiller ==
    /\ UNCHANGED << codecVars, callVars >>
    /\ pc = "write_filler"
    /\ stream' = write_packet_header(stream, current_packet_index, 0, 0)
    /\ packet_log' = Append(packet_log, [index |-> current_packet_index,
                                         size |-> 0, states |-> 0])
    /\ current_packet_index' = current_packet_index + 1
    /\ pc' = LoopHead(recorder_state)
    /\ UNCHANGED << outcome, hooked, file_state, gameVars, accepted, desync, ever_hooked,
                    game_data, pad_recorder_info_ptr, recorder_state, stage_name, restart_id,
                    next_frame, total_frames, previous_state, status_dumps, compressed_packet >>

(***************************************************************************)
(* After the loop: EOF header, alignment, close, unhook.                   *)
(***************************************************************************)
\* write_packet_header(f, current_packet_index + 32, 192, 0)
EofPacket(packet_index) ==
    [index |-> packet_index + EOF_INDEX_OFFSET, size |-> EOF_PACKET_SIZE, states |-> 0]

WriteEof ==
    /\ UNCHANGED << codecVars, callVars >>
    /\ pc = "write_eof"
    /\ LET eof == EofPacket(current_packet_index)
       IN  /\ stream' = write_packet_header(stream, eof.index, eof.size, eof.states)
           /\ packet_log' = Append(packet_log, eof)
    /\ pc' = "align"
    /\ UNCHANGED << outcome, hooked, file_state, gameVars, localVars,
                    accepted, desync, ever_hooked >>

Align ==
    /\ UNCHANGED << codecVars, callVars >>
    /\ pc = "align"
    /\ stream' = align_stream_32(stream)
    /\ pc' = "close"
    /\ UNCHANGED << outcome, hooked, file_state, gameVars, localVars, historyVars >>

\* print("Stopped recording!") and the end of the with statement
Close ==
    /\ UNCHANGED << codecVars, callVars >>
    /\ pc = "close"
    /\ file_state' = "closed"
    /\ pc' = "unhook"
    /\ UNCHANGED << outcome, hooked, stream, gameVars, localVars, historyVars >>

\* dolphin_memory_engine.un_hook() and the final print
Unhook ==
    /\ UNCHANGED << codecVars, callVars >>
    /\ pc = "unhook"
    /\ hooked' = FALSE
    /\ pc' = "done"
    /\ outcome' = "finished"
    /\ UNCHANGED << gameVars, localVars, fileVars, historyVars >>

(***************************************************************************)
(* Exceptions from outside the function's own checks.                      *)
(***************************************************************************)
\* CTRL+C: KeyboardInterrupt between any two statements; handle_dolphin
\* catches it and prints "Execution canceled."
Interrupt ==
    /\ UNCHANGED << codecVars, callVars >>
    /\ pc /= "done"
    /\ Raise("KeyboardInterrupt")
    /\ UNCHANGED << gameVars, localVars, historyVars >>

\* A provider read fails (Dolphin closed, invalid address): RuntimeError,
\* caught and printed by handle_dolphin
ProviderError ==
    /\ UNCHANGED << codecVars, callVars >>
    /\ pc \in ReadingPcs
    /\ Raise("RuntimeError")
    /\ UNCHANGED << gameVars, localVars, historyVars >>

(***************************************************************************)
(* The game.                                                               *)
(***************************************************************************)
\* One update frame of the game.  The recorder sees the counter only when
\* it reads it, so the frames that pass during its other statements are
\* taken here, before the read.
GameTick ==
    /\ UNCHANGED << codecVars, callVars >>
    /\ pc = "read_frame"
    /\ game_ticks < MaxGameTicks
    /\ mem_frame' = Mask32(AddLong(mem_frame, 1))
    /\ game_ticks' = game_ticks + 1
    /\ UNCHANGED << pc, outcome, hooked, localVars, fileVars, historyVars,
                    mem_mode, mode_changes >>

\* The game writes the recorder mode word; as for the frame counter, the
\* write is taken right before a read of the word.
GameSetMode ==
    /\ UNCHANGED << codecVars, callVars >>
    /\ pc \in {"await_start", "read_mode"}
    /\ mode_changes < MaxModeChanges
    /\ \E mode \in ModeValues \ {mem_mode} : mem_mode' = mode
    /\ mode_changes' = mode_changes + 1
    /\ UNCHANGED << pc, outcome, hooked, localVars, fileVars, historyVars,
                    mem_frame, game_ticks >>

Next ==
    \/ LoadSave \/ Hook \/ ReadGameId \/ FindInfo \/ AwaitStart
    \/ ReadStageName \/ ReadRestartId \/ OpenFile \/ WritePadHeader \/ WriteGameData
    \/ ReadFrame \/ ReadMode \/ ReadStatuses \/ Compress
    \/ WriteDataHeader \/ WriteData \/ WriteFiller
    \/ WriteEof \/ Align \/ Close \/ Unhook
    \/ Interrupt \/ ProviderError
    \/ GameTick \/ GameSetMode

Spec == Init /\ [][Next]_vars

(***************************************************************************)
(* Reading a PAD stream back: the fields of a packet header and the walk   *)
(* over the packets that follow the game data.                             *)
(***************************************************************************)
\* bits 0-7, 8-23 and 24-31 of the big-endian header word at offset pos
HeaderIndex(s, pos) == s[pos + 4]

HeaderSize(s, pos) == s[pos + 2] * 256 + s[pos + 3]

HeaderStates(s, pos) == s[pos + 1]

\* offset of the first packet: 64-byte header, length prefix, game data
PacketsStart == 64 + 4 + Len(game_data)

\* The packets from offset pos to the end of s; the walk ends with a record
\* marked partial when the stream stops inside a header or a payload.
RECURSIVE ParsePackets(_, _)
ParsePackets(s, pos) ==
    IF pos >= Len(s) THEN << >>
    ELSE IF pos + 4 > Len(s) \/ pos + 4 + HeaderSize(s, pos) > Len(s)
    THEN << [partial |-> TRUE] >>
    ELSE << [partial |-> FALSE,
             index |-> HeaderIndex(s, pos),
             size |-> HeaderSize(s, pos),
             states |-> HeaderStates(s, pos),
             payload |-> Slice(s, pos + 5, pos + 4 + HeaderSize(s, pos))] >>
         \o ParsePackets(s, pos + 4 + HeaderSize(s, pos))

EndsAtPacketBoundary(s, start) ==
    \/ Len(s) < start
    \/ LET packets == ParsePackets(s, start)
       IN  \A k \in 1..Len(packets) : ~packets[k].partial

LastAccepted == accepted[Len(accepted)]

\* the EOF header is the only one whose index argument exceeds the counter
EofWritten ==
    /\ Len(packet_log) > 0
    /\ packet_log[Len(packet_log)].index > current_packet_index

\* a step of ReadFrame that raises nothing
ReadFrameStep ==
    /\ pc = "read_frame"
    /\ pc' \in {"read_frame", "read_mode"}
    /\ mem_frame' = mem_frame

(***************************************************************************)
(* C1.  A frame counter read that is neither the last accepted value nor   *)
(* its successor modulo 2^32 aborts the session at once: the session is    *)
(* over with a synchronization error and the hook is released.             *)
(* The code only polls again (continue), so this does not hold.            *)
(***************************************************************************)
C1_SyncViolationAborts ==
    desync => (pc = "done" /\ outcome = "SynchronizationError" /\ ~hooked)

(***************************************************************************)
(* C2.  In the recording loop the first frame counter read is accepted; a  *)
(* read equal to the last accepted value changes nothing (no packet, same  *)
(* packet index, same baseline, same expectation); a read equal to the     *)
(* last accepted value plus one modulo 2^32 is accepted and moves the      *)
(* expectation to its successor modulo 2^32.                               *)
(***************************************************************************)
C2_FramePolicy ==
    [][ReadFrameStep =>
          /\ Len(accepted) = 0 =>
                /\ accepted' = << mem_frame >>
                /\ pc' = "read_mode"
          /\ (Len(accepted) > 0 /\ mem_frame = LastAccepted) =>
                /\ pc' = "read_frame"
                /\ UNCHANGED << accepted, next_frame, stream, packet_log,
                                current_packet_index, previous_state, total_frames >>
          /\ (Len(accepted) > 0 /\ mem_frame = Mask32(AddLong(LastAccepted, 1))) =>
                /\ accepted' = Append(accepted, mem_frame)
                /\ next_frame' = Mask32(AddLong(mem_frame, 1))
                /\ pc' = "read_mode"
       ]_vars

\* frames 0xFFFFFFFF and 0 were accepted one after the other
C2_Witness ==
    \E k \in 1..(Len(accepted) - 1) :
        accepted[k] = Long(65535, 65535) /\ accepted[k + 1] = Long(0, 0)

(***************************************************************************)
(* C3.  After the loop the last header written is the EOF packet, with     *)
(* size 0, state count 0 and index = packet index + 32 modulo 256.         *)
(* The code writes 192 in the size field, so this does not hold.           *)
(***************************************************************************)
C3_EofPacketIsEmpty ==
    pc = "align" =>
        /\ HeaderSize(stream, Len(stream) - 4) = 0
        /\ HeaderStates(stream, Len(stream) - 4) = 0
        /\ HeaderIndex(stream, Len(stream) - 4) = (current_packet_index + EOF_INDEX_OFFSET) % 256

(***************************************************************************)
(* C4.  align_stream_32 at the normal exit appends fewer than 32 bytes,    *)
(* all zero, none when the stream is already aligned, and leaves a stream  *)
(* whose length is a multiple of 32; a finished session's file has such a  *)
(* length.                                                                 *)
(***************************************************************************)
C4_AlignedOutput ==
    /\ [][(pc = "align" /\ pc' = "close") =>
             /\ Len(stream') % 32 = 0
             /\ Len(stream') - Len(stream) \in 0..31
             /\ SubSeq(stream', 1, Len(stream)) = stream
             /\ \A i \in (Len(stream) + 1)..Len(stream') : stream'[i] = 0
             /\ Len(stream) % 32 = 0 => stream' = stream
          ]_vars
    /\ [](outcome = "finished" => Len(stream) % 32 = 0)

\* a finished session that recorded at least one tick
C4_Witness == outcome = "finished" /\ total_frames >= 1 /\ Len(stream) % 32 = 0

(***************************************************************************)
(* C5.  Once the process has been hooked, every way a session ends leaves  *)
(* the hook released.  The code unhooks only on its two return paths, not  *)
(* when an exception (null pointer, provider error, CTRL+C) ends it.       *)
(***************************************************************************)
C5_HookReleasedOnEveryExit == (pc = "done" /\ ever_hooked) => ~hooked

(***************************************************************************)
(* C6.  A session cancelled by CTRL+C while the file is open leaves a      *)
(* closed file that ends at a packet boundary: no packet header without    *)
(* its full payload (the EOF marker and the alignment may be missing).     *)
(* An interrupt between the data header and its payload breaks this.       *)
(***************************************************************************)
C6_CancelledFileEndsAtPacketBoundary ==
    (outcome = "KeyboardInterrupt" /\ file_state /= "none" /\ ~EofWritten) =>
        /\ file_state = "closed"
        /\ EndsAtPacketBoundary(stream, PacketsStart)

(***************************************************************************)
(* C7.  A null-pointer (validation) error is never raised once the output  *)
(* file exists.  The WPADReadDataInfo pointer is only read inside the      *)
(* loop, after the file was created, so this does not hold.                *)
(***************************************************************************)
C7_ValidationBeforeOpen == outcome = "IndexError" => file_state = "none"

(***************************************************************************)
(* C8.  When the waiting loop reads Stopped, the session unhooks and       *)
(* returns: no output file, no stage name and no restart id were read.     *)
(***************************************************************************)
C8_StoppedBeforeRecording ==
    [][(pc = "await_start" /\ recorder_state' = RECORDER_MODE_STOPPED) =>
          /\ pc' = "done"
          /\ outcome' = "aborted"
          /\ ~hooked'
          /\ file_state' = "none"
          /\ stream' = << >>
          /\ stage_name' = None
          /\ restart_id' = None
       ]_vars

C8_Witness == outcome = "aborted" /\ ever_hooked /\ ~hooked /\ file_state = "none"

(***************************************************************************)
(* C9.  An accepted frame whose mode re-read is not Recording leaves the   *)
(* loop without writing anything.  Every recorded tick t = 1, 2, ... adds  *)
(* exactly two packets: a data packet with index 2t-2, the compressed      *)
(* payload, its length and the number of statuses read, then a filler      *)
(* packet with index 2t-1, size 0 and state count 0; the packet index is   *)
(* twice the number of recorded ticks.                                     *)
(***************************************************************************)
TwoPacketsPerTick ==
    (pc \in {"read_frame", "read_mode", "read_statuses", "write_eof"}) =>
        LET packets == ParsePackets(stream, PacketsStart)
            last == 2 * total_frames
        IN  /\ current_packet_index = 2 * total_frames
            /\ Len(packets) = 2 * total_frames
            /\ \A k \in 1..Len(packets) :
                  /\ ~packets[k].partial
                  /\ packets[k].index = (k - 1) % 256
                  /\ k % 2 = 0 => (packets[k].size = 0 /\ packets[k].states = 0)
            /\ total_frames > 0 =>
                  /\ packets[last - 1].payload = compressed_packet
                  /\ packets[last - 1].size = Len(compressed_packet)
                  /\ packets[last - 1].states = Len(status_dumps)

C9_PacketsPerTick ==
    /\ []TwoPacketsPerTick
    /\ [][(pc = "read_mode" /\ pc' /= "done" /\ mem_mode' = mem_mode) =>
             IF mem_mode /= RECORDER_MODE_RECORDING
             THEN pc' = "write_eof" /\ UNCHANGED << stream, packet_log, total_frames >>
             ELSE pc' = "read_statuses"
          ]_vars

\* two ticks were recorded, the second with two statuses, and the loop was
\* left on a frame that was accepted but not recorded
C9_Witness ==
    /\ pc = "write_eof"
    /\ total_frames = 2
    /\ Len(status_dumps) = 2
    /\ Len(accepted) = 3

(***************************************************************************)
(* The reader of the compressed statuses.  The repository has no decoder;  *)
(* this one follows the format as the design describes it: per status a    *)
(* 33-byte mask, then one byte for every mask bit that is set, in          *)
(* ascending byte order, replayed onto the previous status.                *)
(***************************************************************************)
MaskBit(payload, mask_pos, i) ==
    (payload[mask_pos + (i \div 8) + 1] \div (2 ^ (i % 8))) % 2 = 1

DecompressByte(payload, mask_pos, i, acc) ==
    IF MaskBit(payload, mask_pos, i)
    THEN [previous |-> [acc.previous EXCEPT ![i + 1] = payload[acc.pos + 1]],
          pos |-> acc.pos + 1]
    ELSE acc

RECURSIVE DecompressBytes(_, _, _, _, _)
DecompressBytes(payload, mask_pos, first, last, acc) ==
    IF first > last THEN acc
    ELSE IF first = last THEN DecompressByte(payload, mask_pos, first, acc)
    ELSE LET middle == (first + last) \div 2
             left == DecompressBytes(payload, mask_pos, first, middle, acc)
         IN  IF left.pos >= 0
             THEN DecompressBytes(payload, mask_pos, middle + 1, last, left)
             ELSE left

RECURSIVE DecompressFrom(_, _, _, _, _)
DecompressFrom(payload, pos, states_left, previous, out) ==
    IF states_left <= 0
    THEN [states |-> out, previous |-> previous, pos |-> pos]
    ELSE LET r == DecompressBytes(payload, pos, 0, KPAD_STATUS_SIZE - 1,
                                  [previous |-> previous, pos |-> pos + KPAD_MASK_SIZE])
         IN  DecompressFrom(payload, r.pos, states_left - 1, r.previous,
                            Append(out, r.previous))

decompress_kpad_states(payload, state_count, previous_kpad_state) ==
    DecompressFrom(payload, 0, state_count, previous_kpad_state, << >>)

(***************************************************************************)
(* The codec on its own: frames are compressed in order against one        *)
(* previous state and each payload is decompressed, in the same order,     *)
(* against another; both previous states start as 240 zero bytes.          *)
(***************************************************************************)
MaxCodecFrames == 3

CodecDumps == { << >>, << ZeroStatus >>, << Status1 >>, << Status2 >>,
                << Status1, Status2 >>, << Status2, Status2 >>, << ZeroStatus, Status1 >> }

CodecInit ==
    /\ pc = "codec_encode"
    /\ outcome = "running"
    /\ hooked = FALSE
    /\ mem_frame = Long(0, 0)
    /\ mem_mode = RECORDER_MODE_RECORDING
    /\ game_ticks = 0
    /\ mode_changes = 0
    /\ game_data = None
    /\ pad_recorder_info_ptr = NULL
    /\ recorder_state = RECORDER_MODE_RECORDING
    /\ stage_name = None
    /\ restart_id = None
    /\ next_frame = MINUS_ONE
    /\ total_frames = 0
    /\ current_packet_index = 0
    /\ previous_state = Zeros(KPAD_STATUS_SIZE)
    /\ status_dumps = << >>
    /\ compressed_packet = << >>
    /\ file_state = "none"
    /\ stream = << >>
    /\ accepted = << >>
    /\ desync = FALSE
    /\ packet_log = << >>
    /\ ever_hooked = FALSE
    /\ decoder_state = Zeros(KPAD_STATUS_SIZE)
    /\ decoded_dumps = << >>
    /\ call = [op |-> "none"]
    /\ result = [kind |-> "none"]

CodecEncode ==
    /\ pc = "codec_encode"
    /\ total_frames < MaxCodecFrames
    /\ \E dumps \in CodecDumps :
          LET r == compress_kpad_states(dumps, previous_state)
          IN  /\ status_dumps' = dumps
              /\ compressed_packet' = r.out
              /\ previous_state' = r.previous
    /\ total_frames' = total_frames + 1
    /\ pc' = "codec_decode"
    /\ UNCHANGED << outcome, hooked, gameVars, fileVars, historyVars, codecVars, callVars,
                    game_data, pad_recorder_info_ptr, recorder_state, stage_name, restart_id,
                    next_frame, current_packet_index >>

CodecDecode ==
    /\ pc = "codec_decode"
    /\ LET r == decompress_kpad_states(compressed_packet, Len(status_dumps), decoder_state)
       IN  /\ decoded_dumps' = r.states
           /\ decoder_state' = r.previous
    /\ pc' = "codec_encode"
    /\ UNCHANGED << outcome, hooked, gameVars, localVars, fileVars, historyVars, callVars >>

CodecNext == CodecEncode \/ CodecDecode

SpecCodec == CodecInit /\ [][CodecNext]_vars

(***************************************************************************)
(* C10.  Compressing frames in order against a previous state that starts  *)
(* all zero, and decompressing the payloads in the same order against      *)
(* another previous state that starts all zero, gives back every status of *)
(* every frame.                                                            *)
(***************************************************************************)
C10_RoundTrip ==
    (pc = "codec_encode" /\ total_frames > 0) =>
        /\ decoded_dumps = status_dumps
        /\ decoder_state = previous_state

\* the third frame of a sequence, with two statuses that differ from each
\* other, was rebuilt after frames that had changed the previous state
C10_Witness ==
    /\ pc = "codec_encode"
    /\ total_frames = 3
    /\ decoded_dumps = << Status1, Status2 >>
    /\ Len(compressed_packet) > 2 * KPAD_MASK_SIZE

(***************************************************************************)
(* The layout of the output of compress_kpad_states, stated without the    *)
(* loops: states are the statuses passed, base the previous state before   *)
(* the call, out the bytes returned and after the previous state after the *)
(* call.                                                                   *)
(***************************************************************************)
\* the state the k-th status is compared with
BaselineOf(states, base, k) == IF k = 1 THEN base ELSE states[k - 1]

\* the byte indices (from 0) at which the k-th status differs from it
ChangedIndices(states, base, k) ==
    { i \in 0..(KPAD_STATUS_SIZE - 1) : states[k][i + 1] /= BaselineOf(states, base, k)[i + 1] }

\* the j-th smallest element of a set of numbers
NthSmallest(S, j) == CHOOSE i \in S : Cardinality({ x \in S : x <= i }) = j

\* where the output for the k-th status starts (offset from 0)
RECURSIVE BlockStart(_, _, _)
BlockStart(states, base, k) ==
    IF k <= 1 THEN 0
    ELSE BlockStart(states, base, k - 1) + KPAD_MASK_SIZE
             + Cardinality(ChangedIndices(states, base, k - 1))

EncodedAs(states, base, out, after) ==
    /\ Len(out) = BlockStart(states, base, Len(states) + 1)
    /\ after = IF Len(states) = 0 THEN base ELSE states[Len(states)]
    /\ \A k \in 1..Len(states) :
          LET start == BlockStart(states, base, k)
              changed == ChangedIndices(states, base, k)
          IN  /\ \A i \in 0..(KPAD_STATUS_SIZE - 1) :
                    ((out[start + (i \div 8) + 1] \div (2 ^ (i % 8))) % 2 = 1) <=> (i \in changed)
              /\ \A j \in 1..Cardinality(changed) :
                    out[start + KPAD_MASK_SIZE + j] = states[k][NthSmallest(changed, j) + 1]
              /\ (changed = {}) =>
                    SubSeq(out, start + 1, start + KPAD_MASK_SIZE) = Zeros(KPAD_MASK_SIZE)

(***************************************************************************)
(* C11.  For every call of compress_kpad_states the output is, per status  *)
(* in input order, a 33-byte mask followed by the changed bytes: bit       *)
(* (i mod 8) of mask byte (i div 8) is set exactly when byte i differs     *)
(* from the previous state at that moment, the changed bytes follow in     *)
(* ascending index order, and afterwards the previous state is the last    *)
(* status processed.  A status equal to the previous state gives an        *)
(* all-zero mask and no changed bytes.                                     *)
(***************************************************************************)
C11_MaskAndChangedBytes ==
    [][(pc = "codec_encode" /\ pc' = "codec_decode") =>
          EncodedAs(status_dumps', previous_state, compressed_packet', previous_state')]_vars

\* two equal statuses in one call: the second one adds 33 zero bytes only
C11_Witness ==
    /\ pc = "codec_decode"
    /\ status_dumps = << Status2, Status2 >>
    /\ previous_state = Status2
    /\ Len(compressed_packet) = 2 * KPAD_MASK_SIZE + 3
    /\ SubSeq(compressed_packet, KPAD_MASK_SIZE + 4, 2 * KPAD_MASK_SIZE + 3) = Zeros(KPAD_MASK_SIZE)

(***************************************************************************)
(* Helpers called on their own.  No session runs: the variables of         *)
(* record_pad_from_dolphin keep the values below.                          *)
(***************************************************************************)
NoSession ==
    /\ pc = "idle"
    /\ outcome = "running"
    /\ hooked = FALSE
    /\ mem_frame = Long(0, 0)
    /\ mem_mode = RECORDER_MODE_WAITING
    /\ game_ticks = 0
    /\ mode_changes = 0
    /\ game_data = None
    /\ pad_recorder_info_ptr = NULL
    /\ recorder_state = RECORDER_MODE_WAITING
    /\ stage_name = None
    /\ restart_id = None
    /\ next_frame = MINUS_ONE
    /\ total_frames = 0
    /\ current_packet_index = 0
    /\ previous_state = << >>
    /\ status_dumps = << >>
    /\ compressed_packet = << >>
    /\ file_state = "none"
    /\ stream = << >>
    /\ accepted = << >>
    /\ desync = FALSE
    /\ packet_log = << >>
    /\ ever_hooked = FALSE
    /\ decoder_state = << >>
    /\ decoded_dumps = << >>

(***************************************************************************)
(* calc_memory_checksum as extract_game_data_from_save_file calls it: over *)
(* the bytes of a buffer from offset 4 to its end.  The buffer is then     *)
(* changed in one of three ways and hashed again.                          *)
(***************************************************************************)
SavedHashes == { << 0, 0, 0, 0 >>, << 18, 52, 86, 120 >>, << 255, 255, 255, 255 >> }

ChecksumWords == { << 0, 0 >>, << 1, 2 >>, << 2, 1 >>, << 255, 255 >> }

ChecksumTails == { << 1, 2, 2, 1, 255, 255 >>, << 0, 0, 1, 2, 255, 255, 2, 1, 7 >> }

\* calc_memory_checksum(data, 0x4, len(data) - 4)
SaveChecksum(data) == calc_memory_checksum(data, 4, Len(data) - 4)

\* the number of 16-bit words the loop reads from data[4:]
WordCount(data) == (Len(data) - 4) \div 2

\* the j-th (from 1) 16-bit word of data[4:], as its two bytes
WordAt(data, j) == << data[3 + 2 * j], data[4 + 2 * j] >>

SetWord(data, j, w) == [data EXCEPT ![3 + 2 * j] = w[1], ![4 + 2 * j] = w[2]]

ChecksumInit ==
    /\ NoSession
    /\ \E tail \in ChecksumTails :
          call = [op |-> "load", data |-> << 0, 0, 0, 0 >> \o tail, hashed |-> FALSE]
    /\ result = NULL

ChecksumCall ==
    /\ ~call.hashed
    /\ call' = [call EXCEPT !.hashed = TRUE]
    /\ result' = SaveChecksum(call.data)
    /\ UNCHANGED sessionVars

\* other first four bytes, the rest untouched
ChecksumChangeSavedHash ==
    /\ call.hashed
    /\ \E h \in SavedHashes :
          LET data == h \o SubSeq(call.data, 5, Len(call.data))
          IN  /\ data /= call.data
              /\ call' = [op |-> "change_saved_hash", data |-> data, hashed |-> TRUE]
              /\ result' = SaveChecksum(data)
    /\ UNCHANGED sessionVars

\* two different 16-bit words of data[4:] change places
ChecksumSwapWords ==
    /\ call.hashed
    /\ \E j, k \in 1..WordCount(call.data) :
          /\ j < k
          /\ WordAt(call.data, j) /= WordAt(call.data, k)
          /\ LET data == SetWord(SetWord(call.data, j, WordAt(call.data, k)),
                                  k, WordAt(call.data, j))
              IN  /\ call' = [op |-> "swap_words", data |-> data, hashed |-> TRUE]
                  /\ result' = SaveChecksum(data)
    /\ UNCHANGED sessionVars

\* one 16-bit word of data[4:] gets another value
ChecksumChangeWord ==
    /\ call.hashed
    /\ \E j \in 1..WordCount(call.data), w \in ChecksumWords :
          /\ w /= WordAt(call.data, j)
          /\ LET data == SetWord(call.data, j, w)
              IN  /\ call' = [op |-> "change_word", data |-> data, hashed |-> TRUE]
                  /\ result' = SaveChecksum(data)
    /\ UNCHANGED sessionVars

ChecksumNext ==
    ChecksumCall \/ ChecksumChangeSavedHash \/ ChecksumSwapWords \/ ChecksumChangeWord

SpecChecksum == ChecksumInit /\ [][ChecksumNext]_vars

\* the buffer was hashed before and after the change
Rehashed(op) == call.hashed /\ call'.op = op

(***************************************************************************)
(* C12 as stated.  The checksum over bytes[4:] does not change when        *)
(* bytes[0:4] change, and two buffers whose bytes[4:] hold the same 16-bit *)
(* words in a different order have different checksums.                    *)
(***************************************************************************)
C12_ChecksumOrderSensitive ==
    [][/\ Rehashed("change_saved_hash") => result' = result
       /\ Rehashed("swap_words") => result' /= result]_vars

(***************************************************************************)
(* C12 as amended.  The checksum over bytes[4:] does not change when       *)
(* bytes[0:4] change, changes when one 16-bit word of bytes[4:] changes,   *)
(* and is the same for two buffers whose bytes[4:] hold the same 16-bit    *)
(* words in a different order.                                             *)
(***************************************************************************)
C12_ChecksumOverTail ==
    [][/\ Rehashed("change_saved_hash") => result' = result
       /\ Rehashed("swap_words") => result' = result
       /\ Rehashed("change_word") => result' /= result]_vars

\* a buffer with other first bytes and its words in another order than the
\* loaded one has the loaded one's checksum
C12_Witness ==
    /\ call.op = "swap_words"
    /\ call.data = << 18, 52, 86, 120, 255, 255, 2, 1, 1, 2 >>
    /\ result = SaveChecksum(<< 0, 0, 0, 0, 1, 2, 2, 1, 255, 255 >>)

(***************************************************************************)
(* C13.  A save file whose first big-endian u32 differs from the checksum  *)
(* of bytes[4:] never yields game data, whatever the player index and the  *)
(* block directory are: with a complete 16-byte header the extractor       *)
(* prints the corruption error and returns None; the session then ends     *)
(* without ever hooking the process or opening an output file.             *)
(***************************************************************************)
SavedHashDiffers(data) ==
    /\ Len(data) >= 4
    /\ SubSeq(data, 1, 4) /= PackLong(SaveChecksum(data))

\* the save files at hand that can be read and have such a first u32
CorruptSaves ==
    { save \in SaveFiles : save.exists /\ save.is_file /\ SavedHashDiffers(save.data) }

CorruptSaveLoaded == call.op = "extract" /\ call.save \in CorruptSaves

C13_CorruptSaveRejected ==
    CorruptSaveLoaded =>
        /\ result.kind /= "ok"
        /\ Len(call.save.data) >= 16 => (result.kind = "none" /\ result.error = "corrupted")
        /\ game_data = None
        /\ pc = "done"
        /\ ~ever_hooked /\ ~hooked
        /\ file_state = "none" /\ stream = << >>

\* a file with a valid player index and a directory naming the block, whose
\* saved hash differs in its upper half only
C13_Witness ==
    /\ CorruptSaveLoaded
    /\ call.save.data = WithHash(SaveTail(Directory1), 65536)
    /\ call.index = 1
    /\ outcome = "no_game_data"

(***************************************************************************)
(* extract_game_data_from_save_file on save files made around one game     *)
(* data block: a valid header, a directory with the one entry "user1", the *)
(* block with its declared sections, and trailing bytes that no section    *)
(* declares.                                                               *)
(***************************************************************************)
MaxSections == 3

\* declared section lengths: header only, and 1 or 3 payload bytes
SectionLengths == { 12, 13, 15 }

RECURSIVE SectionLists(_)
SectionLists(n) ==
    IF n = 0 THEN { << >> }
    ELSE LET shorter == SectionLists(n - 1)
         IN  shorter \cup { Append(l, len) : l \in { x \in shorter : Len(x) = n - 1 },
                                              len \in SectionLengths }

\* the last one has the shape of a further section
TrailingBytes ==
    { << >>, << 222 >>, << 222, 173, 190 >>, Section(99, 13, << 1 >>) }

RECURSIVE SectionsOf(_, _)
SectionsOf(lengths, k) ==
    IF k > Len(lengths) THEN << >>
    ELSE Section(16 + k, lengths[k], SubSeq(<< 171, 205, 239 >>, 1, lengths[k] - 12))
         \o SectionsOf(lengths, k + 1)

BlockOf(lengths) == << 7, Len(lengths), 8, 9 >> \o SectionsOf(lengths, 1)

SaveAround(block_area) ==
    [exists |-> TRUE, is_file |-> TRUE,
     data |-> WithHash(PackU32(1) \o PackU32(1) \o PackU32(32 + Len(block_area))
                       \o BlockName(1) \o PackU32(32) \o block_area, 0)]

ExtractInit ==
    /\ NoSession
    /\ \E lengths \in SectionLists(MaxSections), trailing \in TrailingBytes :
          call = [op |-> "extract", lengths |-> lengths, trailing |-> trailing,
                  save |-> SaveAround(BlockOf(lengths) \o trailing), index |-> 1,
                  done |-> FALSE]
    /\ result = [kind |-> "none"]

ExtractCall ==
    /\ ~call.done
    /\ call' = [call EXCEPT !.done = TRUE]
    /\ result' = extract_game_data_from_save_file(call.save, call.index)
    /\ UNCHANGED sessionVars

ExtractNext == ExtractCall

SpecExtract == ExtractInit /\ [][ExtractNext]_vars

RECURSIVE SumOf(_, _)
SumOf(lengths, k) == IF k > Len(lengths) THEN 0 ELSE lengths[k] + SumOf(lengths, k + 1)

(***************************************************************************)
(* C14.  A game data block with N declared sections of declared lengths    *)
(* L_1..L_N followed by K trailing bytes is extracted as exactly its first *)
(* 4 + L_1 + ... + L_N bytes: the mini-header and every section header     *)
(* with its payload, in order, without the trailing bytes.                 *)
(***************************************************************************)
C14_TruncatedToDeclaredSections ==
    call.done =>
        /\ result.kind = "ok"
        /\ Len(result.data) = 4 + SumOf(call.lengths, 1)
        /\ result.data = BlockOf(call.lengths)
        /\ result.data = SubSeq(call.save.data, 33, 32 + 4 + SumOf(call.lengths, 1))

\* three sections with payloads of different lengths, followed by bytes
\* that look like a fourth section
C14_Witness ==
    /\ call.done
    /\ call.lengths = << 13, 12, 15 >>
    /\ call.trailing = Section(99, 13, << 1 >>)
    /\ Len(result.data) = 44
    /\ Len(call.save.data) = 32 + 44 + 13

(***************************************************************************)
(* write_packet_header on its own, for fields within their widths.         *)
(***************************************************************************)
\* every single bit, none, all, and the two alternating patterns
ByteFields == { 0, 1, 2, 4, 8, 16, 32, 64, 128, 85, 170, 255 }

WordFields == { 0, 1, 128, 255, 256, 257, 21845, 43690, 32768, 65280, 65534, 65535 }

StreamsBefore == { << >>, << 255, 255, 255, 255, 255 >> }

HeaderInit ==
    /\ NoSession
    /\ \E before \in StreamsBefore, index \in ByteFields, size \in WordFields,
          states \in ByteFields :
          call = [op |-> "write_packet_header", stream |-> before, packet_index |-> index,
                  packet_size |-> size, packet_states |-> states, done |-> FALSE]
    /\ result = [kind |-> "none"]

HeaderCall ==
    /\ ~call.done
    /\ call' = [call EXCEPT !.done = TRUE]
    /\ result' = [kind |-> "stream",
                  data |-> write_packet_header(call.stream, call.packet_index,
                                               call.packet_size, call.packet_states)]
    /\ UNCHANGED sessionVars

HeaderNext == HeaderCall

SpecHeader == HeaderInit /\ [][HeaderNext]_vars

\* bits low..high (bit 0 the least significant) of the big-endian u32 at
\* offset pos of s, for fields that do not cross the middle of the word
WordBits(s, pos, low, high) ==
    LET upper == s[pos + 1] * 256 + s[pos + 2]
        lower == s[pos + 3] * 256 + s[pos + 4]
    IN  IF low >= 16
        THEN (upper \div (2 ^ (low - 16))) % (2 ^ (high - low + 1))
        ELSE IF high < 16
        THEN (lower \div (2 ^ low)) % (2 ^ (high - low + 1))
        ELSE (lower \div (2 ^ low)) + (upper % (2 ^ (high - 15))) * (2 ^ (16 - low))

(***************************************************************************)
(* C15.  write_packet_header appends one big-endian u32 with the index in  *)
(* bits 0-7, the size in bits 8-23 and the state count in bits 24-31, and  *)
(* reading the three fields back gives the triple written, for every index *)
(* in 0..255, size in 0..65535 and state count in 0..255.                  *)
(***************************************************************************)
C15_PacketHeaderRoundTrip ==
    call.done =>
        LET at == Len(call.stream)
        IN  /\ Len(result.data) = at + 4
            /\ SubSeq(result.data, 1, at) = call.stream
            /\ WordBits(result.data, at, 0, 7) = call.packet_index
            /\ WordBits(result.data, at, 8, 23) = call.packet_size
            /\ WordBits(result.data, at, 24, 31) = call.packet_states
            /\ HeaderIndex(result.data, at) = call.packet_index
            /\ HeaderSize(result.data, at) = call.packet_size
            /\ HeaderStates(result.data, at) = call.packet_states

\* all bits of the size set between an index and a state count of zero
C15_Witness ==
    /\ call.done
    /\ call.packet_index = 0 /\ call.packet_size = 65535 /\ call.packet_states = 0
    /\ result.data = call.stream \o << 0, 255, 255, 0 >>

(***************************************************************************)
(* C16.  Once the EOF packet is written, walking the stream from the end   *)
(* of the game data, header by header, each time skipping the number of    *)
(* payload bytes the header declares, consumes the stream exactly and its  *)
(* last stop is the EOF packet.  The EOF header declares 192 payload bytes *)
(* and none follow, so the walk runs past the end of the stream.           *)
(***************************************************************************)
C16_PacketWalkEndsAtEof ==
    pc = "align" =>
        LET packets == ParsePackets(stream, PacketsStart)
        IN  /\ Len(packets) = 2 * total_frames + 1
            /\ \A k \in 1..Len(packets) : ~packets[k].partial
            /\ packets[Len(packets)].index = (current_packet_index + EOF_INDEX_OFFSET) % 256

(***************************************************************************)
(* C17.  The stage name is read, the output file opened and the header and *)
(* the game data written only when the mode that ended the waiting loop    *)
(* was Recording.  The code goes on to step 5 with every value that is not *)
(* Waiting, Preparing or Stopped, so a mode word outside the four values   *)
(* creates a file as well.                                                 *)
(***************************************************************************)
C17_FileOnlyWhenRecording ==
    /\ pc \in {"stage_name", "restart_id", "open", "write_pad_header", "write_game_data"}
          => recorder_state = RECORDER_MODE_RECORDING
    /\ (file_state /= "none" /\ accepted = << >>)
          => recorder_state = RECORDER_MODE_RECORDING

(***************************************************************************)
(* The PadRecorderInfo accessors on their own.  mem is the content of the  *)
(* emulated memory; every accessor returns how it ended (kind is "ok",     *)
(* "IndexError" for a refused null pointer or "RuntimeError" for a failed  *)
(* provider read), its value, and reads, the provider reads it issued in   *)
(* order.                                                                  *)
(***************************************************************************)
OFFSET_UPDATE_FRAME == 0
OFFSET_READ_DATA_INFO == 4
OFFSET_RECORDER_MODE == 8
OFFSET_STAGE_NAME_PTR == 12
OFFSET_RESTART_ID == 16

\* where the game keeps the WPADReadDataInfo, the stage name and the
\* KPADStatus array in the memories of the model
READ_DATA_INFO_PTR == AddLong(INFO_PTR, 64)
STAGE_NAME_PTR == AddLong(INFO_PTR, 128)
STATUS_PTR == AddLong(INFO_PTR, 256)

\* the name is the last thing in the emulated memory: the bytes from
\* STAGE_NAME_PTR to the end of the memory
StringScanLimit == 8

RECURSIVE Repeat(_, _)
Repeat(byte, n) == IF n <= 0 THEN << >> ELSE << byte >> \o Repeat(byte, n - 1)

StageNameMemory ==
    { << 0 >>,
      << 82, 101, 100, 0, 88, 0 >>,
      << 82, 101, 100, 66, 108, 117, 101 >>,
      Repeat(65, 2 * StringScanLimit) }

Memories ==
    [ update_frame : { Long(0, 5) },
      read_data_info : { NULL, READ_DATA_INFO_PTR },
      recorder_mode : { ToLong(RECORDER_MODE_RECORDING) },
      stage_name_ptr : { NULL, STAGE_NAME_PTR },
      restart_id : { ToLong(1) },
      status_ptr : { NULL, STATUS_PTR },
      status_count : { ToLong(0), ToLong(1), ToLong(2) },
      name : StageNameMemory ]

\* dolphin_memory_engine.read_word
MemoryWord(mem, addr) ==
    IF addr = AddLong(INFO_PTR, OFFSET_UPDATE_FRAME) THEN mem.update_frame
    ELSE IF addr = AddLong(INFO_PTR, OFFSET_READ_DATA_INFO) THEN mem.read_data_info
    ELSE IF addr = AddLong(INFO_PTR, OFFSET_RECORDER_MODE) THEN mem.recorder_mode
    ELSE IF addr = AddLong(INFO_PTR, OFFSET_STAGE_NAME_PTR) THEN mem.stage_name_ptr
    ELSE IF addr = AddLong(INFO_PTR, OFFSET_RESTART_ID) THEN mem.restart_id
    ELSE IF addr = READ_DATA_INFO_PTR THEN mem.status_ptr
    ELSE IF addr = AddLong(READ_DATA_INFO_PTR, 4) THEN mem.status_count
    ELSE NULL

\* dolphin_memory_engine.read_bytes(addr, 0xF0): the array holds Status1
\* and Status2; address 0 is the start of the memory, where the game ID is
MemoryStatus(mem, addr) ==
    IF addr = STATUS_PTR THEN Status1
    ELSE IF addr = AddLong(STATUS_PTR, KPAD_STATUS_SIZE) THEN Status2
    ELSE IF addr = NULL THEN [ZeroStatus EXCEPT ![1] = 83, ![2] = 66, ![3] = 52, ![4] = 69]
    ELSE ZeroStatus

ProviderRead(fn, addr) == [fn |-> fn, addr |-> addr]

Refused(name) == [kind |-> "IndexError", name |-> name, value |-> << >>, reads |-> << >>]

\* the result of a second call made after the reads of a first one
After(reads, r) == [r EXCEPT !.reads = reads \o r.reads]

dolphin_read_u32(mem, ptr) ==
    IF ~validate_ptr(ptr) THEN Refused("u32*")
    ELSE [kind |-> "ok", name |-> "", value |-> Mask32(MemoryWord(mem, ptr)),
          reads |-> << ProviderRead("read_word", ptr) >>]

\* The loop of dolphin_read_cstring from the k-th byte on.  A read past the
\* end of the memory fails in the provider.
RECURSIVE ScanString(_, _, _, _, _)
ScanString(mem, ptr, k, chars, reads) ==
    LET read == Append(reads, ProviderRead("read_byte", AddLong(ptr, k)))
    IN  IF k >= Len(mem.name)
        THEN [kind |-> "RuntimeError", name |-> "", value |-> << >>, reads |-> read]
        ELSE IF mem.name[k + 1] = 0
        THEN [kind |-> "ok", name |-> "", value |-> chars, reads |-> read]
        ELSE ScanString(mem, ptr, k + 1, Append(chars, mem.name[k + 1]), read)

dolphin_read_cstring(mem, ptr) ==
    IF ~validate_ptr(ptr) THEN Refused("char*")
    ELSE ScanString(mem, ptr, 0, << >>, << >>)

dolphin_read_update_frame(mem, info_ptr) ==
    IF ~validate_ptr(info_ptr) THEN Refused("PadRecorderInfo*")
    ELSE dolphin_read_u32(mem, AddLong(info_ptr, OFFSET_UPDATE_FRAME))

dolphin_read_recorder_mode(mem, info_ptr) ==
    IF ~validate_ptr(info_ptr) THEN Refused("PadRecorderInfo*")
    ELSE dolphin_read_u32(mem, AddLong(info_ptr, OFFSET_RECORDER_MODE))

dolphin_read_stage_name(mem, info_ptr) ==
    IF ~validate_ptr(info_ptr) THEN Refused("PadRecorderInfo*")
    ELSE LET stage_name_ptr ==
                 dolphin_read_u32(mem, AddLong(info_ptr, OFFSET_STAGE_NAME_PTR))
         IN  IF stage_name_ptr.kind /= "ok" THEN stage_name_ptr
             ELSE After(stage_name_ptr.reads, dolphin_read_cstring(mem, stage_name_ptr.value))

dolphin_read_restart_id(mem, info_ptr) ==
    IF ~validate_ptr(info_ptr) THEN Refused("PadRecorderInfo*")
    ELSE dolphin_read_u32(mem, AddLong(info_ptr, OFFSET_RESTART_ID))

\* The loop of dolphin_read_kpad_statuses from the k-th status on.
RECURSIVE ReadStatusArray(_, _, _, _, _, _)
ReadStatusArray(mem, status_ptr, k, status_count, statuses, reads) ==
    IF k >= status_count
    THEN [kind |-> "ok", name |-> "", value |-> statuses, reads |-> reads]
    ELSE ReadStatusArray(mem, AddLong(status_ptr, KPAD_STATUS_SIZE), k + 1, status_count,
                         Append(statuses, MemoryStatus(mem, status_ptr)),
                         Append(reads, ProviderRead("read_bytes", status_ptr)))

dolphin_read_kpad_statuses(mem, info_ptr) ==
    IF ~validate_ptr(info_ptr) THEN Refused("PadRecorderInfo*")
    ELSE LET wpad_read_data_info_ptr ==
                 dolphin_read_u32(mem, AddLong(info_ptr, OFFSET_READ_DATA_INFO))
             status_ptr ==
                 After(wpad_read_data_info_ptr.reads,
                       dolphin_read_u32(mem, AddLong(wpad_read_data_info_ptr.value, 0)))
             status_count ==
                 After(status_ptr.reads,
                       dolphin_read_u32(mem, AddLong(wpad_read_data_info_ptr.value, 4)))
         IN  IF wpad_read_data_info_ptr.kind /= "ok" THEN wpad_read_data_info_ptr
             ELSE IF status_ptr.kind /= "ok" THEN status_ptr
             ELSE IF status_count.kind /= "ok" THEN status_count
             ELSE ReadStatusArray(mem, status_ptr.value, 0, status_count.value.lo,
                                  << >>, status_count.reads)

Accessors ==
    { "dolphin_read_u32", "dolphin_read_cstring", "dolphin_read_update_frame",
      "dolphin_read_recorder_mode", "dolphin_read_stage_name", "dolphin_read_restart_id",
      "dolphin_read_kpad_statuses" }

\* the pointers an accessor is called with
AccessorPointers(accessor) ==
    IF accessor = "dolphin_read_cstring" THEN { NULL, STAGE_NAME_PTR } ELSE { NULL, INFO_PTR }

CallAccessor(accessor, mem, ptr) ==
    IF accessor = "dolphin_read_u32" THEN dolphin_read_u32(mem, ptr)
    ELSE IF accessor = "dolphin_read_cstring" THEN dolphin_read_cstring(mem, ptr)
    ELSE IF accessor = "dolphin_read_update_frame" THEN dolphin_read_update_frame(mem, ptr)
    ELSE IF accessor = "dolphin_read_recorder_mode" THEN dolphin_read_recorder_mode(mem, ptr)
    ELSE IF accessor = "dolphin_read_stage_name" THEN dolphin_read_stage_name(mem, ptr)
    ELSE IF accessor = "dolphin_read_restart_id" THEN dolphin_read_restart_id(mem, ptr)
    ELSE dolphin_read_kpad_statuses(mem, ptr)

AccessorInit ==
    /\ NoSession
    /\ \E accessor \in Accessors, mem \in Memories :
          \E ptr \in AccessorPointers(accessor) :
             call = [op |-> accessor, mem |-> mem, ptr |-> ptr, done |-> FALSE]
    /\ result = [kind |-> "none"]

AccessorCall ==
    /\ ~call.done
    /\ call' = [call EXCEPT !.done = TRUE]
    /\ result' = CallAccessor(call.op, call.mem, call.ptr)
    /\ UNCHANGED sessionVars

AccessorNext == AccessorCall

SpecAccessors == AccessorInit /\ [][AccessorNext]_vars

\* an address at the null pointer or a small offset from it
NearNull(addr) == addr.hi = 0

(***************************************************************************)
(* C18.  No accessor issues a provider read through a null pointer: called *)
(* with a null pointer it raises the null-pointer error before any read,   *)
(* and a null pointer loaded from memory (stage name, WPADReadDataInfo,    *)
(* status array with a status count above zero) makes it raise that error  *)
(* instead of reading at or near address 0.  The status array pointer is   *)
(* passed to read_bytes unexamined, so this does not hold.                 *)
(***************************************************************************)
C18_NoReadThroughNull ==
    call.done =>
        /\ \A k \in 1..Len(result.reads) : ~NearNull(result.reads[k].addr)
        /\ call.ptr = NULL => (result.kind = "IndexError" /\ result.reads = << >>)
        /\ (call.op = "dolphin_read_stage_name" /\ call.ptr /= NULL
               /\ call.mem.stage_name_ptr = NULL) => result.kind = "IndexError"
        /\ (call.op = "dolphin_read_kpad_statuses" /\ call.ptr /= NULL
               /\ call.mem.read_data_info = NULL) => result.kind = "IndexError"
        /\ (call.op = "dolphin_read_kpad_statuses" /\ call.ptr /= NULL
               /\ call.mem.read_data_info /= NULL /\ call.mem.status_ptr = NULL
               /\ call.mem.status_count /= NULL) => result.kind = "IndexError"

(***************************************************************************)
(* C20.  dolphin_read_cstring reads at most a fixed number of bytes,       *)
(* StringScanLimit, and raises an error when none of them is zero.  The    *)
(* loop has no limit: it reads until a zero byte or until the provider     *)
(* fails at the end of the memory.                                         *)
(***************************************************************************)
C20_BoundedStringScan ==
    (call.done /\ call.op = "dolphin_read_cstring" /\ call.ptr /= NULL) =>
        /\ Len(result.reads) <= StringScanLimit
        /\ (\A k \in 1..StringScanLimit : k <= Len(call.mem.name) => call.mem.name[k] /= 0)
              => result.kind /= "ok"

(***************************************************************************)
(* The recording loop under fair scheduling.  The session has just written *)
(* the header and the game data, with the mode read as Recording; from     *)
(* here the loop of record_pad_from_dolphin runs (it has no sleep, so      *)
(* every statement that can run does run) while the game keeps counting    *)
(* frames and may stop the recorder at any time.                           *)
(***************************************************************************)
LiveSave == [exists |-> TRUE, is_file |-> TRUE, data |-> WithHash(SaveTail(Directory2), 0)]

LiveInit ==
    /\ pc = "read_frame"
    /\ outcome = "running"
    /\ hooked = TRUE
    /\ mem_frame \in FirstFrames
    /\ mem_mode = RECORDER_MODE_RECORDING
    /\ game_ticks = 0
    /\ mode_changes = 0
    /\ game_data = GameData2
    /\ pad_recorder_info_ptr = INFO_PTR
    /\ recorder_state = RECORDER_MODE_RECORDING
    /\ stage_name \in StageNames
    /\ restart_id \in RestartIds
    /\ next_frame = MINUS_ONE
    /\ total_frames = 0
    /\ current_packet_index = 0
    /\ previous_state = Zeros(KPAD_STATUS_SIZE)
    /\ status_dumps = << >>
    /\ compressed_packet = << >>
    /\ file_state = "open"
    /\ stream = write_game_data(write_pad_header(<< >>), GameData2)
    /\ accepted = << >>
    /\ desync = FALSE
    /\ packet_log = << >>
    /\ ever_hooked = TRUE
    /\ decoder_state = << >>
    /\ decoded_dumps = << >>
    /\ call = [op |-> "extract", save |-> LiveSave, index |-> 2]
    /\ result = extract_game_data_from_save_file(LiveSave, 2)

MaxLiveTicks == 2

\* One update frame of the game, as GameTick.
LiveTick ==
    /\ pc = "read_frame"
    /\ game_ticks < MaxLiveTicks
    /\ mem_frame' = Mask32(AddLong(mem_frame, 1))
    /\ game_ticks' = game_ticks + 1
    /\ UNCHANGED << pc, outcome, hooked, localVars, fileVars, historyVars, codecVars, callVars,
                    mem_mode, mode_changes >>

\* The game stops the recorder; the write is taken right before a read of
\* the counter or of the mode.
GameStop ==
    /\ pc \in {"read_frame", "read_mode"}
    /\ mem_mode = RECORDER_MODE_RECORDING
    /\ mem_mode' = RECORDER_MODE_STOPPED
    /\ UNCHANGED << pc, outcome, hooked, localVars, fileVars, historyVars, codecVars, callVars,
                    mem_frame, game_ticks, mode_changes >>

\* The game runs on, one frame after the other, for 2^31 frames between
\* two reads of the counter.
GameRunsOn ==
    /\ pc = "read_frame"
    /\ mem_frame' = Mask32(Long(mem_frame.hi + 32768, mem_frame.lo))
    /\ UNCHANGED << pc, outcome, hooked, localVars, fileVars, historyVars, codecVars, callVars,
                    mem_mode, game_ticks, mode_changes >>

\* the statements of the loop and of the exit
Poll ==
    \/ ReadFrame \/ ReadMode \/ ReadStatuses \/ Compress
    \/ WriteDataHeader \/ WriteData \/ WriteFiller
    \/ WriteEof \/ Align \/ Close \/ Unhook

LiveNext ==
    \/ Poll
    \/ Interrupt \/ ProviderError
    \/ LiveTick \/ GameStop \/ GameRunsOn

\* The statements that can run while the mode word is Stopped (the read of
\* the counter, the re-read of the mode and the exit) run when they can,
\* and the counter keeps advancing.  The statements between the re-read of
\* the mode and the filler packet run only after Recording was read.
LiveFairness ==
    /\ WF_vars(ReadFrame) /\ WF_vars(ReadMode)
    /\ WF_vars(WriteEof) /\ WF_vars(Align) /\ WF_vars(Close) /\ WF_vars(Unhook)
    /\ WF_vars(GameRunsOn)

SpecLive == LiveInit /\ [][LiveNext]_vars /\ LiveFairness

(***************************************************************************)
(* C19.  Once the session is in the recording loop and the game has set    *)
(* the mode to Stopped, then, if the mode stays Stopped, the loop keeps    *)
(* running and the frame counter keeps advancing, the session comes to its *)
(* end.  The mode is read again only after a frame has been accepted, and  *)
(* a session that waits for a frame the counter has passed reads the       *)
(* counter for ever.                                                       *)
(***************************************************************************)
C19_StopEndsSession ==
    (pc \in LoopPcs /\ mem_mode = RECORDER_MODE_STOPPED)
        ~> (pc = "done" \/ mem_mode /= RECORDER_MODE_STOPPED)

=============================================================================
